---- MODULE Spec2Model ----
(***************************************************************************)
(* Listening Lab POC: the interactive dispatcher (handleCommand / main),   *)
(* the browse walker (searchTracks, playItem, queueItem), the playback     *)
(* controller, the coach client and the zone subscription, as one state    *)
(* machine.  One step is one resumption of the single JavaScript thread:   *)
(* a typed line, a vendor callback (browse/load response, zone push,       *)
(* pair/unpair) or the coach's reply, run up to the next await.            *)
(***************************************************************************)
EXTENDS Integers, Sequences, FiniteSets, TLC

(* ------------------------------ bounds -------------------------------- *)
\* most numbers typed after `queue`
MaxNums == 2
\* most entries of a track list the controller returns in the model
MaxTracks == 1

(* ------------------------- program constants -------------------------- *)
\* Math.min(10, tracksResult.list.count)
TrackCap == 10

NoKey == ""
NoZone == "null"

(* ------------------------------ data ---------------------------------- *)
\* interface BrowseItem; an absent item_key / hint is the empty string
Item(t, k, h) == [title |-> t, item_key |-> k, hint |-> h]

\* parseInt's result: a number or NaN
Num(v) == [nan |-> FALSE, v |-> v]
NaN == [nan |-> TRUE, v |-> 0]

\* one remote call as the collaborator sees it
Call(fn, op, input, key, zone, count, idx) ==
  [fn |-> fn, op |-> op, input |-> input, key |-> key, zone |-> zone,
   count |-> count, i |-> idx]

\* one console line of the current command (n: the number it is about)
Msg(m, n) == [msg |-> m, n |-> n, titles |-> <<>>]
MsgTitles(m, n, ts) == [msg |-> m, n |-> n, titles |-> ts]

(* --------------------------- JS array helpers -------------------------- *)
\* Array.prototype.find on the title: the first element whose title is in
\* ts, as a sequence of length 0 (undefined) or 1
FindTitle(s, ts) ==
  LET f == SelectSeq(s, LAMBDA it : it.title \in ts)
  IN IF f = <<>> THEN <<>> ELSE <<Head(f)>>

Titles(s) == [k \in 1..Len(s) |-> s[k].title]

Last(s) == s[Len(s)]

Min(a, b) == IF a < b THEN a ELSE b

(* ---------------- what the audio controller may answer ----------------- *)
ZoneIds == {"z1"}
\* zone lists of a push event: no zone twice
ZoneLists == {<<>>, <<"z1">>}

\* a browse answer: an error, or a list descriptor with a count and,
\* possibly, inline items
BrowseErr == [err |-> TRUE, count |-> 0, items |-> <<>>]
BrowseOk(c, its) == [err |-> FALSE, count |-> c, items |-> its]
LoadErr == [err |-> TRUE, items |-> <<>>]
LoadOk(its) == [err |-> FALSE, items |-> its]

TrackKey(k) == IF k = 1 THEN "k1" ELSE IF k = 2 THEN "k2" ELSE "k3"
\* a track list of length len whose entry `bare` (0: none) has no item_key
TrackList(len, bare) ==
  [k \in 1..len |-> Item("Song", IF k = bare THEN NoKey ELSE TrackKey(k), "action_list")]
TrackLists == {TrackList(len, bare) : len \in 0..MaxTracks, bare \in 0..1}

\* the category lists of a search
CategoryLists ==
  { <<>>,
    <<Item("Artists", "ca", "list"), Item("Tracks", "ct", "list")>>,
    <<Item("Tracks", NoKey, "list"), Item("Direct", NoKey, "action"), Item("Albums", "cb", "list")>>,
    <<Item("Header", NoKey, ""), Item("Direct", NoKey, "action"), Item("Albums", "cb", "list")>> }

\* the action menus of an item
ActionLists ==
  { <<>>,
    <<Item("Play Now", "ap", "action"), Item("Queue", "aq", "action")>>,
    <<Item("Play", "ap", "action"), Item("Add Next", "aq", "action")>>,
    <<Item("Start Radio", "ar", "action")>>,
    <<Item("Play Now", NoKey, "action"), Item("Play", "ap", "action"),
      Item("Queue", NoKey, "action"), Item("Add Next", "aq", "action")>>,
    <<Item("Versions", "av", "action_list")>>,
    <<Item("Versions", NoKey, "action_list")>> }

RootCounts == {0, 2}
TrackCounts == {0, 2, 12}
ActionCounts == {0, 2}

(* -------------------------- the coach's reply -------------------------- *)
\* the reply text, by what parseSuggestions reads of it: whether a ```json
\* block is there, whether it parses, whether data.tracks is an array, and
\* the entries' artist and track ("": absent)
Reply(block, tracks) == [block |-> block, tracks |-> tracks]
Entry(a, t) == [artist |-> a, track |-> t]
CoachReplies ==
  { Reply("none", <<>>),
    Reply("malformed", <<>>),
    Reply("notarray", <<>>),
    Reply("ok", <<>>),
    Reply("ok", <<Entry("a1", "t1")>>),
    Reply("ok", <<Entry("a1", "t1"), Entry("a2", "t2")>>),
    Reply("ok", <<Entry("a1", ""), Entry("a2", "t2")>>) }
NoReply == Reply("-", <<>>)

(* ------------------------------ state --------------------------------- *)
VARIABLES
  transport,        \* core.services.RoonApiTransport held (TRUE) or null
  browse,           \* core.services.RoonApiBrowse held (TRUE) or null
  sub,              \* the zone subscription: "none", "pending", "live"
  zones,            \* the keys of the zones Map, in insertion order
  activeZoneId,     \* a zone id or NoZone
  lastResults,      \* BrowseItem[]
  lastSuggestions,  \* string[]
  pc,               \* where the main loop stands
  cmd,              \* the command being handled
  i,                \* queue: the position in nums of the number in hand
  calls,            \* the remote calls of the command (queue: of the number in hand)
  out,              \* the console lines of the command so far
  actions,          \* playItem / queueItem: the local `actions`
  reply,            \* the coach's reply of the command
  loaded,           \* history: the items of the controller's last action-menu load answer
  matched,          \* history: the last walk has run its title match
  walkResult,       \* history: how the last playItem / queueItem promise settled
  stale             \* history: a search has completed since the suggestions were stored

vars == <<transport, browse, sub, zones, activeZoneId, lastResults,
          lastSuggestions, pc, cmd, i, calls, out, actions, reply,
          loaded, matched, walkResult, stale>>

NoCmd == [op |-> "", n |-> NaN, nums |-> <<>>, q |-> ""]
Cmd(op, n, nums, q) == [op |-> op, n |-> n, nums |-> nums, q |-> q]

\* the positions at which playItem / queueItem is suspended
WalkPcs == {"item_browse", "item_load", "drill_browse", "drill_load", "action_browse"}
\* the positions at which searchTracks is suspended
SearchPcs == {"search_browse", "search_load", "tracks_browse", "tracks_load"}

\* the part of the state one resumption of the main thread may write
Cur ==
  [pc |-> pc, cmd |-> cmd, i |-> i, calls |-> calls, out |-> out,
   actions |-> actions, reply |-> reply, loaded |-> loaded,
   matched |-> matched, walkResult |-> walkResult,
   stale |-> stale, activeZoneId |-> activeZoneId,
   lastResults |-> lastResults, lastSuggestions |-> lastSuggestions]

Apply(e) ==
  /\ pc' = e.pc
  /\ cmd' = e.cmd
  /\ i' = e.i
  /\ calls' = e.calls
  /\ out' = e.out
  /\ actions' = e.actions
  /\ reply' = e.reply
  /\ loaded' = e.loaded
  /\ matched' = e.matched
  /\ walkResult' = e.walkResult
  /\ stale' = e.stale
  /\ activeZoneId' = e.activeZoneId
  /\ lastResults' = e.lastResults
  /\ lastSuggestions' = e.lastSuggestions
  /\ UNCHANGED <<transport, browse, sub, zones>>

(* ------------------------- console and errors -------------------------- *)
Say(e, m) == [e EXCEPT !.out = Append(@, m)]

\* handleCommand returns
Finish(e) == [e EXCEPT !.pc = "done"]

\* a main loop without the catch: the exception ends the loop
Thrown_exits(e, what, at) ==
  [Say(e, Msg("Error: " \o what, 0)) EXCEPT
     !.pc = "exited",
     !.walkResult = IF at \in WalkPcs THEN "threw" ELSE @]

\* an exception that reaches main's catch: the command ends there; `at` is
\* the await it surfaced at
Thrown(e, what, at) ==
  [Say(e, Msg("Error: " \o what, 0)) EXCEPT
     !.pc = "done",
     !.walkResult = IF at \in WalkPcs THEN "threw" ELSE @]

\* a call that goes out whether or not the handle is held
IssueCall_anyway(e, c, at) ==
  [e EXCEPT !.calls = Append(@, c), !.pc = at]

\* browseAsync / loadAsync: the call goes out through the browse handle; with
\* the handle null, browse.browse throws inside the promise executor
IssueCall(e, c, at) ==
  IF ~browse THEN Thrown(e, "TypeError", at)
  ELSE [e EXCEPT !.calls = Append(@, c), !.pc = at]

\* fn: the function the call is made from
browseAsync(e, fn, input, key, zone, at) ==
  IssueCall(e, Call(fn, "browse", input, key, zone, 0, e.i), at)

loadAsync(e, fn, count, at) ==
  IssueCall(e, Call(fn, "load", "", NoKey, "", count, e.i), at)

(* ----------------- the walkers, up to their first await ----------------- *)
\* the number the command is resolving: play's n, or queue's nums[i]
CurNum(e) ==
  IF e.cmd.op = "queue" /\ e.i <= Len(e.cmd.nums) THEN e.cmd.nums[e.i]
  ELSE e.cmd.n.v

\* a searchTracks without the test of the browse handle
searchTracks_unchecked(e, query) ==
  browseAsync(e, "searchTracks", query, NoKey, "", "search_browse")

searchTracks(e, query) ==
  IF ~browse THEN Thrown(e, "Not connected to Roon", "search_browse")
  ELSE browseAsync(e, "searchTracks", query, NoKey, "", "search_browse")

\* a walk begins: `actions` is a fresh local
WalkEntry(e) ==
  [e EXCEPT !.actions = <<>>, !.loaded = <<>>, !.matched = FALSE,
            !.walkResult = "pending"]

playItem(e, itemKey) ==
  IF ~browse \/ e.activeZoneId = NoZone
  THEN Thrown(WalkEntry(e), "Not connected or no zone selected", "item_browse")
  ELSE browseAsync(WalkEntry(e), "playItem", "", itemKey, "", "item_browse")

queueItem(e, itemKey) ==
  IF ~browse \/ e.activeZoneId = NoZone
  THEN Thrown(WalkEntry(e), "Not connected or no zone selected", "item_browse")
  ELSE browseAsync(WalkEntry(e), "queueItem", "", itemKey, "", "item_browse")

\* 1 <= num <= list.length, as the dispatcher tests it
InRange(num, list) == list # <<>> /\ num > 0 /\ num <= Len(list)

\* the for loop takes the next number; `calls` starts over: it holds the
\* remote calls made for the number in hand
nextNum(e) == [e EXCEPT !.i = @ + 1, !.calls = <<>>]

\* handleCommand, case 'queue': the for loop from nums[e.i] on, up to the
\* next await or the end of the command
RECURSIVE queueLoop(_)
queueLoop(e) ==
  IF e.i > Len(e.cmd.nums) THEN Finish(e)
  ELSE LET num == e.cmd.nums[e.i] IN
    IF InRange(num, e.lastResults) THEN
      LET item == e.lastResults[num] IN
      IF item.item_key # NoKey
      THEN queueItem(Say(e, Msg("Queueing", num)), item.item_key)
      ELSE queueLoop(nextNum(e))
    ELSE IF InRange(num, e.lastSuggestions) THEN
      searchTracks(Say(e, Msg("Searching for", num)), e.lastSuggestions[num])
    ELSE queueLoop(nextNum(Say(e, Msg("Invalid number", num))))

\* handleCommand, case 'play' with an argument
playNumber(e) ==
  LET num == e.cmd.n.v
      ok(list) == ~e.cmd.n.nan /\ InRange(num, list)
  IN IF ok(e.lastResults) THEN
       LET item == e.lastResults[num] IN
       IF item.item_key # NoKey
       THEN playItem(Say(e, Msg("Playing", num)), item.item_key)
       ELSE Finish(e)
     ELSE IF ok(e.lastSuggestions) THEN
       searchTracks(Say(e, Msg("Searching for", num)), e.lastSuggestions[num])
     ELSE Finish(Say(e, Msg("Invalid number", num)))

(* --------------------- the walkers' continuations ---------------------- *)
\* playItem's promise resolves: the play command is over
playItemReturn(e) ==
  Finish([e EXCEPT !.walkResult = "returned"])

\* queueItem's promise resolves: the for loop goes on
queueItemReturn(e) ==
  queueLoop(nextNum([e EXCEPT !.walkResult = "returned"]))

\* a walker whose action call leaves out zone_or_output_id
playMatch_unscoped(e) ==
  LET playAction == FindTitle(e.actions, {"Play Now", "Play"})
      e1 == [e EXCEPT !.matched = TRUE]
  IN IF playAction # <<>> /\ playAction[1].item_key # NoKey
     THEN browseAsync(e1, "playItem", "", playAction[1].item_key, "", "action_browse")
     ELSE playItemReturn(
            Say(e1, MsgTitles("Play action not found", CurNum(e), Titles(e.actions))))

\* playItem: the title match on `actions` and the action call
playMatch(e) ==
  LET playAction == FindTitle(e.actions, {"Play Now", "Play"})
      e1 == [e EXCEPT !.matched = TRUE]
  IN IF playAction # <<>> /\ playAction[1].item_key # NoKey
     THEN browseAsync(e1, "playItem", "", playAction[1].item_key,
                      e.activeZoneId, "action_browse")
     ELSE playItemReturn(
            Say(e1, MsgTitles("Play action not found", CurNum(e), Titles(e.actions))))

\* queueItem: the title match on `actions` and the action call
queueMatch(e) ==
  LET queueAction == FindTitle(e.actions, {"Queue", "Add Next"})
      e1 == [e EXCEPT !.matched = TRUE]
  IN IF queueAction # <<>> /\ queueAction[1].item_key # NoKey
     THEN browseAsync(e1, "queueItem", "", queueAction[1].item_key,
                      e.activeZoneId, "action_browse")
     ELSE queueItemReturn(
            Say(e1, MsgTitles("Queue action not found", CurNum(e), Titles(e.actions))))

\* the version disambiguation test on the first action list
IsNested(acts) ==
  Len(acts) = 1 /\ acts[1].hint = "action_list" /\ acts[1].item_key # NoKey

\* playItem once the first action list is in `actions`
playAfterLoad(e) ==
  IF IsNested(e.actions)
  THEN browseAsync(e, "playItem", "", e.actions[1].item_key, "", "drill_browse")
  ELSE playMatch(e)

\* a queueItem without the version disambiguation
queueAfterLoad_noDrill(e) == queueMatch(e)

\* queueItem once the first action list is in `actions`
queueAfterLoad(e) ==
  IF IsNested(e.actions)
  THEN browseAsync(e, "queueItem", "", e.actions[1].item_key, "", "drill_browse")
  ELSE queueMatch(e)

\* a dispatcher that keeps the tracks of a re-resolving search as the results
searchReturn_storesResults(e, res) ==
  LET e1 == [e EXCEPT !.lastResults = res] IN
  IF e.cmd.op = "search" THEN
    Finish(Say([e1 EXCEPT !.stale = (e.lastSuggestions # <<>>)],
               Msg(IF res = <<>> THEN "No tracks found" ELSE "Results", 0)))
  ELSE IF e.cmd.op = "play" THEN
    IF res # <<>> /\ res[1].item_key # NoKey
    THEN playItem(Say(e1, Msg("Playing (found)", CurNum(e))), res[1].item_key)
    ELSE Finish(Say(e1, Msg("Track not found", CurNum(e))))
  ELSE
    IF res # <<>> /\ res[1].item_key # NoKey
    THEN queueItem(Say(e1, Msg("Queueing (found)", CurNum(e))), res[1].item_key)
    ELSE queueLoop(nextNum(Say(e1, Msg("Track not found", CurNum(e)))))

\* searchTracks returns res to the dispatcher
searchReturn(e, res) ==
  IF e.cmd.op = "search" THEN
    Finish(Say([e EXCEPT !.lastResults = res,
                         !.stale = (e.lastSuggestions # <<>>)],
               Msg(IF res = <<>> THEN "No tracks found" ELSE "Results", 0)))
  ELSE IF e.cmd.op = "play" THEN
    IF res # <<>> /\ res[1].item_key # NoKey
    THEN playItem(Say(e, Msg("Playing (found)", CurNum(e))), res[1].item_key)
    ELSE Finish(Say(e, Msg("Track not found", CurNum(e))))
  ELSE
    IF res # <<>> /\ res[1].item_key # NoKey
    THEN queueItem(Say(e, Msg("Queueing (found)", CurNum(e))), res[1].item_key)
    ELSE queueLoop(nextNum(Say(e, Msg("Track not found", CurNum(e)))))

(* ------------- searchTracks, resumed by the controller ----------------- *)
\* a searchTracks that loads the categories whatever the count
searchBrowsed_loadsAnyway(e, r) ==
  IF r.err THEN Thrown(e, "remote", "search_browse")
  ELSE loadAsync(e, "searchTracks", r.count, "search_load")

\* the root browse has answered
searchBrowsed(e, r) ==
  IF r.err THEN Thrown(e, "remote", "search_browse")
  ELSE IF r.count = 0 THEN searchReturn(Say(e, Msg("No results found", 0)), <<>>)
  ELSE loadAsync(e, "searchTracks", r.count, "search_load")

\* a fallback that keeps the entries with a key only
categoriesLoaded_keyOnly(e, r) ==
  IF r.err THEN Thrown(e, "remote", "search_load")
  ELSE IF r.items = <<>> THEN searchReturn(Say(e, Msg("No results found", 0)), <<>>)
  ELSE LET tracksItem == FindTitle(r.items, {"Tracks"}) IN
    IF tracksItem = <<>> \/ tracksItem[1].item_key = NoKey
    THEN searchReturn(e, SelectSeq(r.items, LAMBDA it : it.item_key # NoKey))
    ELSE browseAsync(e, "searchTracks", "", tracksItem[1].item_key, "", "tracks_browse")

\* the categories are loaded
categoriesLoaded(e, r) ==
  IF r.err THEN Thrown(e, "remote", "search_load")
  ELSE IF r.items = <<>> THEN searchReturn(Say(e, Msg("No results found", 0)), <<>>)
  ELSE LET tracksItem == FindTitle(r.items, {"Tracks"}) IN
    IF tracksItem = <<>> \/ tracksItem[1].item_key = NoKey
    THEN searchReturn(e, SelectSeq(r.items,
                        LAMBDA it : it.hint = "action" \/ it.item_key # NoKey))
    ELSE browseAsync(e, "searchTracks", "", tracksItem[1].item_key, "", "tracks_browse")

\* a load of the tracks that asks for all of them
tracksBrowsed_uncapped(e, r) ==
  IF r.err THEN Thrown(e, "remote", "tracks_browse")
  ELSE IF r.count # 0
       THEN loadAsync(e, "searchTracks", r.count, "tracks_load")
       ELSE searchReturn(e, r.items)

\* the browse into Tracks has answered
tracksBrowsed(e, r) ==
  IF r.err THEN Thrown(e, "remote", "tracks_browse")
  ELSE IF r.count # 0
       THEN loadAsync(e, "searchTracks", Min(TrackCap, r.count), "tracks_load")
       ELSE searchReturn(e, r.items)

\* the track items are loaded
tracksLoaded(e, r) ==
  IF r.err THEN Thrown(e, "remote", "tracks_load")
  ELSE searchReturn(e, r.items)

\* history: the controller's load answer r has arrived
Loaded(e, r) == [e EXCEPT !.loaded = r.items]

\* actions = loaded.items || []
SetActions(e, r) == [e EXCEPT !.actions = r.items]

(* --------------- playItem, resumed by the controller ------------------- *)
\* a walker that issues the failed browse once more
playItemBrowsed_retries(e, r) ==
  IF r.err THEN browseAsync(e, "playItem", "", Last(e.calls).key, "", "item_browse")
  ELSE IF r.count # 0 THEN loadAsync(e, "playItem", r.count, "item_load")
  ELSE playAfterLoad(e)

playItemBrowsed(e, r) ==
  IF r.err THEN Thrown(e, "remote", "item_browse")
  ELSE IF r.count # 0 THEN loadAsync(e, "playItem", r.count, "item_load")
  ELSE playAfterLoad(e)

playItemLoaded(e, r) ==
  IF r.err THEN Thrown(e, "remote", "item_load")
  ELSE playAfterLoad(SetActions(Loaded(e, r), r))

playDrillBrowsed(e, r) ==
  IF r.err THEN Thrown(e, "remote", "drill_browse")
  ELSE IF r.count # 0 THEN loadAsync(e, "playItem", r.count, "drill_load")
  ELSE playMatch(e)

\* a walker that matches on the first-level list after the reload
playDrillLoaded_keepsFirst(e, r) ==
  IF r.err THEN Thrown(e, "remote", "drill_load")
  ELSE playMatch(Loaded(e, r))

playDrillLoaded(e, r) ==
  IF r.err THEN Thrown(e, "remote", "drill_load")
  ELSE playMatch(SetActions(Loaded(e, r), r))

playActionBrowsed(e, r) ==
  IF r.err THEN Thrown(e, "remote", "action_browse")
  ELSE playItemReturn(e)

(* --------------- queueItem, resumed by the controller ------------------ *)
\* a for loop that catches the failure of one number and goes on
queueItemBrowsed_caught(e, r) ==
  IF r.err THEN queueLoop(nextNum(Thrown(e, "remote", "item_browse")))
  ELSE IF r.count # 0 THEN loadAsync(e, "queueItem", r.count, "item_load")
  ELSE queueAfterLoad(e)

queueItemBrowsed(e, r) ==
  IF r.err THEN Thrown(e, "remote", "item_browse")
  ELSE IF r.count # 0 THEN loadAsync(e, "queueItem", r.count, "item_load")
  ELSE queueAfterLoad(e)

queueItemLoaded(e, r) ==
  IF r.err THEN Thrown(e, "remote", "item_load")
  ELSE queueAfterLoad(SetActions(Loaded(e, r), r))

queueDrillBrowsed(e, r) ==
  IF r.err THEN Thrown(e, "remote", "drill_browse")
  ELSE IF r.count # 0 THEN loadAsync(e, "queueItem", r.count, "drill_load")
  ELSE queueMatch(e)

queueDrillLoaded(e, r) ==
  IF r.err THEN Thrown(e, "remote", "drill_load")
  ELSE queueMatch(SetActions(Loaded(e, r), r))

queueActionBrowsed(e, r) ==
  IF r.err THEN Thrown(e, "remote", "action_browse")
  ELSE queueItemReturn(Say(e, Msg("Queued", CurNum(e))))

(* ------------------------------ the coach ------------------------------ *)
CoachError == Reply("error", <<>>)

\* a parseSuggestions that maps every entry, complete or not
parseSuggestions_noFilter(r) ==
  IF r.block # "ok" THEN <<>>
  ELSE [k \in 1..Len(r.tracks) |-> r.tracks[k].artist \o " " \o r.tracks[k].track]

\* parseSuggestions: no block, a block that does not parse or a tracks field
\* that is no array give []; else the entries with both fields, joined
parseSuggestions(r) ==
  IF r.block # "ok" THEN <<>>
  ELSE LET kept == SelectSeq(r.tracks, LAMBDA t : t.artist # "" /\ t.track # "")
       IN [k \in 1..Len(kept) |-> kept[k].artist \o " " \o kept[k].track]

\* askCoach / getTrackSuggestions: the request to the LLM service
askCoach(e, prompt) ==
  [e EXCEPT !.calls = Append(@, Call("askCoach", "coach", prompt, NoKey, "", 0, e.i)),
            !.pc = "coach"]

\* an ask that stores whatever it parsed
askLists_always(r, results, suggestions) ==
  <<<<>>, parseSuggestions(r)>>

\* case 'ask': the two lists after the reply r
askLists(r, results, suggestions) ==
  LET parsed == parseSuggestions(r) IN
  IF Len(parsed) > 0 THEN <<<<>>, parsed>> ELSE <<results, suggestions>>

\* case 'suggest': the two lists after the reply r
suggestLists(r, results, suggestions) ==
  <<<<>>, parseSuggestions(r)>>

\* a dispatcher that empties both lists before it looks at the outcome
coachReplied_clearsFirst(e, r) ==
  IF r = CoachError
  THEN Finish(Say([e EXCEPT !.lastResults = <<>>, !.lastSuggestions = <<>>],
                  Msg("Coach error", 0)))
  ELSE
    LET lists == IF e.cmd.op = "ask"
                 THEN askLists(r, e.lastResults, e.lastSuggestions)
                 ELSE suggestLists(r, e.lastResults, e.lastSuggestions)
        stored == IF e.cmd.op = "ask" THEN Len(parseSuggestions(r)) > 0 ELSE TRUE
        e1 == [Say(e, Msg("display", 0)) EXCEPT
                 !.reply = r,
                 !.lastResults = lists[1],
                 !.lastSuggestions = lists[2],
                 !.stale = IF stored THEN FALSE ELSE @]
    IN Finish(IF Len(lists[2]) > 0 /\ stored
              THEN Say(e1, Msg("tracks ready", Len(lists[2])))
              ELSE e1)

\* the coach has answered (or failed) an ask / suggest
coachReplied(e, r) ==
  IF r = CoachError THEN Finish(Say(e, Msg("Coach error", 0)))
  ELSE
    LET lists == IF e.cmd.op = "ask"
                 THEN askLists(r, e.lastResults, e.lastSuggestions)
                 ELSE suggestLists(r, e.lastResults, e.lastSuggestions)
        stored == IF e.cmd.op = "ask" THEN Len(parseSuggestions(r)) > 0 ELSE TRUE
        e1 == [Say(e, Msg("display", 0)) EXCEPT
                 !.reply = r,
                 !.lastResults = lists[1],
                 !.lastSuggestions = lists[2],
                 !.stale = IF stored THEN FALSE ELSE @]
    IN Finish(IF Len(lists[2]) > 0 /\ stored
              THEN Say(e1, Msg("tracks ready", Len(lists[2])))
              ELSE e1)

(* ------------------------- zones and playback -------------------------- *)
\* Map.set for each zone of zs: a new key goes last, a known key stays
RECURSIVE SetAll(_, _)
SetAll(m, zs) ==
  IF zs = <<>> THEN m
  ELSE SetAll(IF \E k \in 1..Len(m) : m[k] = Head(zs) THEN m ELSE Append(m, Head(zs)),
              Tail(zs))

\* Map.delete for each id of ids
DeleteAll(m, ids) ==
  SelectSeq(m, LAMBDA z : ~(\E k \in 1..Len(ids) : ids[k] = z))

\* showZones: the active zone id after the listing
showZones(active, zs) ==
  IF active = NoZone /\ zs # <<>> THEN zs[1] ELSE active

\* a controlPlayback that tests the transport handle only
controlPlayback_transportOnly(e, action) ==
  IF ~transport
  THEN Say(e, Msg("Not connected or no zone selected", 0))
  ELSE Say([e EXCEPT !.calls =
                 Append(@, Call("controlPlayback", "control", action, NoKey,
                                e.activeZoneId, 0, e.i))],
           Msg(action, 0))

controlPlayback(e, action) ==
  IF ~transport \/ e.activeZoneId = NoZone
  THEN Say(e, Msg("Not connected or no zone selected", 0))
  ELSE Say([e EXCEPT !.calls =
                 Append(@, Call("controlPlayback", "control", action, NoKey,
                                e.activeZoneId, 0, e.i))],
           Msg(action, 0))

(* ------------------------- what the user types ------------------------- *)
\* parseInt of one typed token
Tokens == {NaN} \cup {Num(v) : v \in 0..(MaxTracks + 1)}

RECURSIVE SeqsUpTo(_, _)
SeqsUpTo(S, n) ==
  IF n = 0 THEN {<<>>}
  ELSE LET shorter == SeqsUpTo(S, n - 1)
       IN shorter \cup {Append(t, x) : t \in {u \in shorter : Len(u) = n - 1}, x \in S}

\* arg.split(/[\s,]+/).map(parseInt).filter(n => !isNaN(n))
parseNums(toks) ==
  LET kept == SelectSeq(toks, LAMBDA t : ~t.nan)
  IN [k \in 1..Len(kept) |-> kept[k].v]

QueueArgs == SeqsUpTo(Tokens, MaxNums) \ {<<>>}

\* the state handleCommand starts from
Begin(c) == [Cur EXCEPT !.cmd = c, !.i = 1]

(* ------------------------------ actions -------------------------------- *)
Init ==
  /\ transport = FALSE
  /\ browse = FALSE
  /\ sub = "none"
  /\ zones = <<>>
  /\ activeZoneId = NoZone
  /\ lastResults = <<>>
  /\ lastSuggestions = <<>>
  /\ pc = "startup"
  /\ cmd = NoCmd
  /\ i = 0
  /\ calls = <<>>
  /\ out = <<>>
  /\ actions = <<>>
  /\ reply = NoReply
  /\ loaded = <<>>
  /\ matched = FALSE
  /\ walkResult = "none"
  /\ stale = FALSE

Session == <<cmd, i, calls, out, actions, reply, loaded, matched, walkResult, stale,
             lastResults, lastSuggestions, pc>>

\* core_paired: the handles are taken and the zones subscribed to
CorePaired ==
  /\ pc # "exited"
  /\ ~transport
  /\ transport' = TRUE
  /\ browse' = TRUE
  /\ sub' = "pending"
  /\ UNCHANGED <<zones, activeZoneId>>
  /\ UNCHANGED Session

\* core_unpaired
CoreUnpaired ==
  /\ pc # "exited"
  /\ transport
  /\ transport' = FALSE
  /\ browse' = FALSE
  /\ zones' = <<>>
  /\ sub' = "none"
  /\ UNCHANGED activeZoneId
  /\ UNCHANGED Session

\* the subscription's first push: 'Subscribed', with or without data.zones
ZonesSubscribed ==
  /\ pc # "exited"
  /\ sub = "pending"
  /\ sub' = "live"
  /\ \/ UNCHANGED <<zones, activeZoneId>>
     \/ \E zs \in ZoneLists :
          /\ zones' = SetAll(zones, zs)
          /\ activeZoneId' = showZones(activeZoneId, zones')
  /\ UNCHANGED <<transport, browse>>
  /\ UNCHANGED Session

\* a later push: 'Changed', with zones_changed and zones_removed
ZonesChanged ==
  /\ pc # "exited"
  /\ sub = "live"
  /\ \E changed \in ZoneLists, removed \in ZoneLists :
       /\ changed # <<>> \/ removed # <<>>
       /\ zones' = DeleteAll(SetAll(zones, changed), removed)
  /\ UNCHANGED <<transport, browse, sub, activeZoneId>>
  /\ UNCHANGED Session

\* main: the 3 s wait is over, the loop starts
StartupDone ==
  /\ pc = "startup"
  /\ pc' = "prompt"
  /\ UNCHANGED <<transport, browse, sub, zones, activeZoneId, lastResults,
                 lastSuggestions, cmd, i, calls, out, actions, reply,
                 loaded, matched, walkResult, stale>>

\* main: console.log('') and the next prompt
NextPrompt ==
  /\ pc = "done"
  /\ pc' = "prompt"
  /\ cmd' = NoCmd
  /\ i' = 0
  /\ calls' = <<>>
  /\ out' = <<>>
  /\ actions' = <<>>
  /\ reply' = NoReply
  /\ loaded' = <<>>
  /\ matched' = FALSE
  /\ walkResult' = "none"
  /\ UNCHANGED <<transport, browse, sub, zones, activeZoneId, lastResults,
                 lastSuggestions, stale>>

CmdZones ==
  /\ pc = "prompt"
  /\ LET e == Begin(Cmd("zones", NaN, <<>>, ""))
     IN Apply(Finish(Say([e EXCEPT !.activeZoneId = showZones(@, zones)],
                         Msg("Available zones", 0))))

CmdZone ==
  /\ pc = "prompt"
  /\ \/ Apply(Finish(Say(Begin(Cmd("zone", NaN, <<>>, "")), Msg("Current", 0))))
     \/ \E t \in Tokens :
          LET e == Begin(Cmd("zone", t, <<>>, "arg"))
          IN IF ~t.nan /\ t.v > 0 /\ t.v <= Len(zones)
             THEN Apply(Finish(Say([e EXCEPT !.activeZoneId = zones[t.v]],
                                   Msg("Selected", t.v))))
             ELSE Apply(Finish(e))

\* a line reader that hands over a typed search while a command is running
CmdSearch_anytime ==
  /\ pc \notin {"startup", "exited"}
  /\ Apply(searchTracks(Say(Begin(Cmd("search", NaN, <<>>, "q1")),
                            Msg("Searching", 0)), "q1"))

CmdSearch ==
  /\ pc = "prompt"
  /\ \/ Apply(Finish(Say(Begin(Cmd("search", NaN, <<>>, "")), Msg("Usage", 0))))
     \/ Apply(searchTracks(Say(Begin(Cmd("search", NaN, <<>>, "q1")),
                               Msg("Searching", 0)), "q1"))

CmdPlay ==
  /\ pc = "prompt"
  /\ \/ Apply(Finish(controlPlayback(Begin(Cmd("play", NaN, <<>>, "")), "play")))
     \/ \E t \in Tokens : Apply(playNumber(Begin(Cmd("play", t, <<>>, "arg"))))

CmdQueue ==
  /\ pc = "prompt"
  /\ \/ Apply(Finish(Say(Begin(Cmd("queue", NaN, <<>>, "")), Msg("Usage", 0))))
     \/ \E toks \in QueueArgs :
          Apply(queueLoop(Begin(Cmd("queue", NaN, parseNums(toks), "arg"))))

CmdControl ==
  /\ pc = "prompt"
  /\ \E a \in {"pause", "stop", "next"} :
       Apply(Finish(controlPlayback(Begin(Cmd(a, NaN, <<>>, "")), a)))

CmdAsk ==
  /\ pc = "prompt"
  /\ \/ Apply(Finish(Say(Begin(Cmd("ask", NaN, <<>>, "")), Msg("Usage", 0))))
     \/ Apply(askCoach(Say(Begin(Cmd("ask", NaN, <<>>, "q1")), Msg("Thinking", 0)), "ask"))

CmdSuggest ==
  /\ pc = "prompt"
  /\ \/ Apply(Finish(Say(Begin(Cmd("suggest", NaN, <<>>, "")), Msg("Usage", 0))))
     \/ Apply(askCoach(Say(Begin(Cmd("suggest", NaN, <<>>, "q1")),
                           Msg("Getting suggestions", 0)), "suggest"))

\* now, help, an unknown word, an empty line
CmdOther ==
  /\ pc = "prompt"
  /\ Apply(Finish(Say(Begin(Cmd("other", NaN, <<>>, "")), Msg("info", 0))))

\* exit / quit, or end of input on the terminal: process.exit(0); nothing
\* of the process is left
Exit ==
  /\ pc # "exited"
  /\ pc' = "exited"
  /\ transport' = FALSE
  /\ browse' = FALSE
  /\ sub' = "none"
  /\ zones' = <<>>
  /\ activeZoneId' = NoZone
  /\ lastResults' = <<>>
  /\ lastSuggestions' = <<>>
  /\ cmd' = NoCmd
  /\ i' = 0
  /\ calls' = <<>>
  /\ out' = <<>>
  /\ actions' = <<>>
  /\ reply' = NoReply
  /\ loaded' = <<>>
  /\ matched' = FALSE
  /\ walkResult' = "none"
  /\ stale' = FALSE

BrowseAnswers(counts) == {BrowseErr} \cup {BrowseOk(c, <<>>) : c \in counts}
LoadAnswers(lists) == {LoadErr} \cup {LoadOk(l) : l \in lists}

\* a browse / load callback of searchTracks fires
SearchStep ==
  \/ /\ pc = "search_browse"
     /\ \E r \in BrowseAnswers(RootCounts) : Apply(searchBrowsed(Cur, r))
  \/ /\ pc = "search_load"
     /\ \E r \in LoadAnswers(CategoryLists) : Apply(categoriesLoaded(Cur, r))
  \/ /\ pc = "tracks_browse"
     /\ \E r \in BrowseAnswers(TrackCounts) \cup {BrowseOk(0, TrackList(1, 0))} :
          Apply(tracksBrowsed(Cur, r))
  \/ /\ pc = "tracks_load"
     /\ \E r \in LoadAnswers(TrackLists) : Apply(tracksLoaded(Cur, r))

\* a browse / load callback of playItem fires
PlayStep ==
  /\ cmd.op = "play"
  /\ \/ /\ pc = "item_browse"
        /\ \E r \in BrowseAnswers(ActionCounts) : Apply(playItemBrowsed(Cur, r))
     \/ /\ pc = "item_load"
        /\ \E r \in LoadAnswers(ActionLists) : Apply(playItemLoaded(Cur, r))
     \/ /\ pc = "drill_browse"
        /\ \E r \in BrowseAnswers(ActionCounts) : Apply(playDrillBrowsed(Cur, r))
     \/ /\ pc = "drill_load"
        /\ \E r \in LoadAnswers(ActionLists) : Apply(playDrillLoaded(Cur, r))
     \/ /\ pc = "action_browse"
        /\ \E r \in BrowseAnswers({0}) : Apply(playActionBrowsed(Cur, r))

\* a browse / load callback of queueItem fires
QueueStep ==
  /\ cmd.op = "queue"
  /\ \/ /\ pc = "item_browse"
        /\ \E r \in BrowseAnswers(ActionCounts) : Apply(queueItemBrowsed(Cur, r))
     \/ /\ pc = "item_load"
        /\ \E r \in LoadAnswers(ActionLists) : Apply(queueItemLoaded(Cur, r))
     \/ /\ pc = "drill_browse"
        /\ \E r \in BrowseAnswers(ActionCounts) : Apply(queueDrillBrowsed(Cur, r))
     \/ /\ pc = "drill_load"
        /\ \E r \in LoadAnswers(ActionLists) : Apply(queueDrillLoaded(Cur, r))
     \/ /\ pc = "action_browse"
        /\ \E r \in BrowseAnswers({0}) : Apply(queueActionBrowsed(Cur, r))

\* the LLM service answers or fails
CoachStep ==
  /\ pc = "coach"
  /\ \E r \in CoachReplies \cup {CoachError} : Apply(coachReplied(Cur, r))

Next ==
  \/ CorePaired
  \/ CoreUnpaired
  \/ ZonesSubscribed
  \/ ZonesChanged
  \/ StartupDone
  \/ NextPrompt
  \/ CmdZones
  \/ CmdZone
  \/ CmdSearch
  \/ CmdPlay
  \/ CmdQueue
  \/ CmdControl
  \/ CmdAsk
  \/ CmdSuggest
  \/ CmdOther
  \/ Exit
  \/ SearchStep
  \/ PlayStep
  \/ QueueStep
  \/ CoachStep

Spec == Init /\ [][Next]_vars

(* ======================= the claims, C1 .. C10 ========================= *)

\* the list a number is resolved against: the search results when there are
\* any, otherwise the suggestions
Authoritative == IF lastResults # <<>> THEN lastResults ELSE lastSuggestions

OutOfRange(n) == n <= 0 \/ n > Len(Authoritative)

\* a browse call that carries zone_or_output_id
ZoneScoped(c) == c.op = "browse" /\ c.zone # ""

\* the calls playItem / queueItem made for the number in hand
WalkCalls == SelectSeq(calls, LAMBDA c : c.fn \in {"playItem", "queueItem"})

HasMsg(m) == \E k \in 1..Len(out) : out[k].msg = m

\* C1: in every reachable state at most one of lastResults and
\* lastSuggestions is non-empty, and once a search has completed after
\* suggestions were stored, the stored suggestions are empty.
C1_MutualExclusion ==
  /\ lastResults = <<>> \/ lastSuggestions = <<>>
  /\ stale => lastSuggestions = <<>>

\* C2: once a search has completed after ask / suggest stored suggestions,
\* no play n or queue n issues a fresh search (a searchTracks call) for one
\* of the old suggestions.
C2_NoStaleSuggestionSearch ==
  (cmd.op \in {"play", "queue"} /\ stale) =>
    \A k \in 1..Len(calls) : calls[k].fn # "searchTracks"

\* C3: a number n <= 0 or beyond the authoritative list is answered with
\* the invalid-number line and no remote call is made for it: for play n,
\* and for every number of a queue command.
C3_OutOfRangeNoCall ==
  /\ (cmd.op = "play" /\ cmd.q = "arg" /\ ~cmd.n.nan /\ OutOfRange(cmd.n.v)) =>
       /\ calls = <<>>
       /\ out = <<Msg("Invalid number", cmd.n.v)>>
  /\ cmd.op = "queue" =>
       /\ (i <= Len(cmd.nums) /\ OutOfRange(cmd.nums[i])) => calls = <<>>
       /\ \A k \in 1..Len(cmd.nums) :
            (k < i /\ OutOfRange(cmd.nums[k])) =>
              \E j \in 1..Len(out) : out[j] = Msg("Invalid number", cmd.nums[k])

\* C3 away from C1's bug: the same with at most one list non-empty
C3_WhenExclusive ==
  (lastResults = <<>> \/ lastSuggestions = <<>>) => C3_OutOfRangeNoCall

(* ------------------------- C4 .. C6: the walkers ----------------------- *)
PlayTitles == {"Play Now", "Play"}
QueueTitles == {"Queue", "Add Next"}
\* the titles the walker of the command looks for
Desired == IF cmd.op = "play" THEN PlayTitles ELSE QueueTitles
Walker == IF cmd.op = "play" THEN "playItem" ELSE "queueItem"

\* the entries of the matched list with a desired title and a key
KeyedDesired ==
  SelectSeq(actions, LAMBDA a : a.title \in Desired /\ a.item_key # NoKey)

\* play n with n a number of the search results
PlayOnResult ==
  cmd.op = "play" /\ cmd.q = "arg" /\ ~cmd.n.nan /\ InRange(cmd.n.v, lastResults)

IsError(m) == m.msg \in {"Error: remote", "Error: TypeError",
                         "Error: Not connected to Roon",
                         "Error: Not connected or no zone selected"}

\* the walk ended on the lost browse handle, before any action call
LostHandle ==
  /\ pc = "done"
  /\ out # <<>> /\ Last(out) = Msg("Error: TypeError", 0)
  /\ \A k \in 1..Len(calls) : ~ZoneScoped(calls[k])

\* the browse into the item, which every walk starts with
ItemBrowse(key) == Call(Walker, "browse", "", key, "", 0, i)
\* the action call for entry a, scoped to the selected zone
ActionCall(a) == Call(Walker, "browse", "", a.item_key, activeZoneId, 0, i)

\* C4 as stated: play n on a search result, once the menu is loaded and a
\* keyed entry titled Play Now / Play is in it, ends in a browse call with
\* such an entry's key and the selected zone; no zone-scoped call has
\* another key or zone.
C4_PlayActionCall ==
  (PlayOnResult /\ matched /\ pc = "done") =>
    /\ KeyedDesired # <<>> =>
         /\ calls # <<>>
         /\ \E k \in 1..Len(KeyedDesired) : Last(calls) = ActionCall(KeyedDesired[k])
    /\ \A k \in 1..Len(calls) :
         ZoneScoped(calls[k]) =>
           \E j \in 1..Len(KeyedDesired) : calls[k] = ActionCall(KeyedDesired[j])

\* C4, amended: play n on a search result first browses into the item's
\* key; once the menu is matched, if its first entry titled Play Now / Play
\* carries a key, the last remote call is the browse call with that entry's
\* key and the selected zone, unless the browse handle was lost meanwhile
\* (the command then ends on that error with no action call); a
\* zone-scoped call is only ever that one call.
C4_FirstTitledAction ==
  (PlayOnResult /\ matched) =>
    LET first == FindTitle(actions, PlayTitles) IN
    /\ calls # <<>>
    /\ calls[1] = ItemBrowse(lastResults[cmd.n.v].item_key)
    /\ activeZoneId # NoZone
    /\ (first # <<>> /\ first[1].item_key # NoKey) =>
         \/ Last(calls) = ActionCall(first[1])
         \/ LostHandle
    /\ \A k \in 1..Len(calls) :
         ZoneScoped(calls[k]) =>
           /\ k = Len(calls)
           /\ first # <<>>
           /\ calls[k] = ActionCall(first[1])

C4_Witness ==
  /\ PlayOnResult /\ pc = "done" /\ walkResult = "returned"
  /\ Len(calls) = 3
  /\ calls[3] = Call("playItem", "browse", "", "ap", "z1", 0, 1)
  /\ actions[1] = Item("Play Now", "ap", "action")

\* a walk of the command in hand has loaded a first menu and run its match
WalkMatched ==
  /\ cmd.op \in {"play", "queue"} /\ matched
  /\ Len(WalkCalls) >= 2 /\ WalkCalls[2].op = "load"

\* the walk browsed one level deeper / reloaded there
Drilled ==
  Len(WalkCalls) >= 3 /\ WalkCalls[3].op = "browse" /\ WalkCalls[3].zone = ""
Reloaded == Drilled /\ Len(WalkCalls) >= 4 /\ WalkCalls[4].op = "load"

\* a single entry marked as an action list
SingleActionList(acts) == Len(acts) = 1 /\ acts[1].hint = "action_list"

\* C5 as stated: a first menu of exactly one entry marked as an action list
\* is always drilled into and reloaded before the match, the match is on
\* the reloaded list, and a desired action found there is executed.
C5_AlwaysDrills ==
  WalkMatched =>
    /\ ~Drilled => ~SingleActionList(loaded)
    /\ Drilled => Reloaded /\ actions = loaded
    /\ (Drilled /\ KeyedDesired # <<>> /\ pc = "done") =>
         \E k \in 1..Len(calls) : ZoneScoped(calls[k])

\* C5, amended: a first menu of exactly one entry that is marked as an
\* action list and carries a key is browsed into (by that key); when that
\* browse reports a non-empty list the walker reloads and matches on the
\* reloaded list, otherwise it matches on the first menu; a menu that is
\* not of that shape is matched as loaded.  When the first entry with a
\* desired title in the reloaded list carries a key, its action call is
\* the last call, unless the browse handle was lost meanwhile.
C5_DrillDown ==
  WalkMatched =>
    /\ actions = loaded
    /\ ~Drilled => ~IsNested(loaded)
    /\ (Drilled /\ ~Reloaded) =>
         /\ IsNested(loaded)
         /\ WalkCalls[3] = ItemBrowse(loaded[1].item_key)
    /\ Reloaded =>
         LET first == FindTitle(loaded, Desired) IN
         (first # <<>> /\ first[1].item_key # NoKey) =>
           \/ Last(calls) = ActionCall(first[1])
           \/ LostHandle

C5_Witness ==
  /\ cmd.op = "queue" /\ matched /\ Reloaded
  /\ WalkCalls[3].key = "av"
  /\ loaded = <<Item("Play", "ap", "action"), Item("Add Next", "aq", "action")>>
  /\ Len(WalkCalls) = 5
  /\ WalkCalls[5] = Call("queueItem", "browse", "", "aq", "z1", 0, i)
  /\ pc = "action_browse"

\* the not-found line of the walker, with the titles that were available
NotFoundMsg ==
  MsgTitles(IF cmd.op = "play" THEN "Play action not found"
                               ELSE "Queue action not found",
            CurNum(Cur), Titles(actions))

\* C6: when the matched list has no entry with a desired title, the walk
\* ends in a failure its caller can see, makes no zone-scoped call and
\* prints the titles that were available.
C6_NotFoundFails ==
  (cmd.op \in {"play", "queue"} /\ matched /\ walkResult # "pending"
     /\ FindTitle(actions, Desired) = <<>>) =>
    /\ walkResult = "threw"
    /\ \A k \in 1..Len(calls) : ~ZoneScoped(calls[k])
    /\ \E k \in 1..Len(out) : out[k].msg = NotFoundMsg.msg /\ out[k].titles = Titles(actions)

\* the parts of C6 the code does meet: no action call, and the titles shown
C6_NoCallTitlesShown ==
  (cmd.op \in {"play", "queue"} /\ matched /\ walkResult # "pending"
     /\ FindTitle(actions, Desired) = <<>>) =>
    /\ \A k \in 1..Len(calls) : ~ZoneScoped(calls[k])
    /\ \E k \in 1..Len(out) : out[k].msg = NotFoundMsg.msg /\ out[k].titles = Titles(actions)

(* --------------------------- C7, C8: queue ----------------------------- *)
\* the lines that open the handling of one number
Heads ==
  SelectSeq(out, LAMBDA m : m.msg \in {"Queueing", "Searching for", "Invalid number"})

\* a number of the search results whose entry has no key cannot be queued
Unqueueable(n) == InRange(n, lastResults) /\ lastResults[n].item_key = NoKey

\* the line that opens the handling of number n of the authoritative list
ExpectedHead(n) ==
  IF OutOfRange(n) THEN Msg("Invalid number", n)
  ELSE IF lastResults # <<>> THEN Msg("Queueing", n)
  ELSE Msg("Searching for", n)

ExpectedHeads ==
  LET nums == SelectSeq(cmd.nums, LAMBDA n : ~Unqueueable(n))
  IN [k \in 1..Len(nums) |-> ExpectedHead(nums[k])]

NoErrorShown == \A k \in 1..Len(out) : ~IsError(out[k])

\* C7: a queue command that ran to its end without a reported failure has
\* taken up its numbers in the order given: every valid number's walk was
\* started and every invalid number was reported, whatever came before or
\* after it.
C7_QueueEachValid ==
  (cmd.op = "queue" /\ cmd.q = "arg" /\ pc = "done" /\ NoErrorShown) =>
    Heads = ExpectedHeads

\* C7 away from C1's bug: the same with at most one list non-empty
C7_WhenExclusive ==
  (lastResults = <<>> \/ lastSuggestions = <<>>) => C7_QueueEachValid

RemoteFailed == HasMsg("Error: remote")

\* C8 as stated: after a browse or load call failed while one number was
\* being queued, the numbers after it are still taken up.
C8_ContinuesPastFailure ==
  (cmd.op = "queue" /\ pc = "done" /\ RemoteFailed) =>
    \A k \in 1..Len(cmd.nums) : k <= i

\* C8, amended: a browse or load call that fails while one number is being
\* queued is reported once and ends the command there: the failure is the
\* command's last line, every recorded call belongs to the number in hand,
\* no later number is taken up, and control is back in the main loop for
\* the next prompt.  A command that reports no failure runs through all of
\* its numbers, past invalid numbers, tracks not found and actions not
\* found.
C8_RemoteFailureAborts ==
  cmd.op = "queue" =>
    /\ RemoteFailed =>
         /\ pc = "done"
         /\ Last(out) = Msg("Error: remote", 0)
         /\ Len(SelectSeq(out, IsError)) = 1
         /\ i <= Len(cmd.nums)
         /\ calls # <<>>
         /\ \A k \in 1..Len(calls) : calls[k].i = i
         /\ Len(Heads) <= i
    /\ (pc = "done" /\ NoErrorShown /\ cmd.q = "arg") => i = Len(cmd.nums) + 1

C8_Witness ==
  /\ cmd.op = "queue" /\ pc = "done" /\ RemoteFailed
  /\ Len(cmd.nums) = 2 /\ i = 1
  /\ InRange(cmd.nums[2], lastResults)
  /\ lastResults[cmd.nums[2]].item_key # NoKey

(* ------------------------ C9, C10: the coach --------------------------- *)
\* the step in which the coach's reply to the command `op` is handled
ReplyHandled(op) == cmd.op = op /\ pc = "coach" /\ pc' = "done" /\ reply' # NoReply

\* C9: whatever the reply and the lists before it, suggest leaves the two
\* lists as ask would for the same reply.
C9_SuggestAsAsk ==
  [][ReplyHandled("suggest") =>
       <<lastResults', lastSuggestions'>> = askLists(reply', lastResults, lastSuggestions)]_vars

\* C10: ask with a non-empty parsed list stores it and empties the search
\* results; with an empty one (or none, the coach having failed) both lists
\* stay exactly as they were, through every step of the command.
C10_AskReplacement ==
  [][cmd'.op = "ask" =>
       IF pc = "coach" /\ reply' # NoReply /\ parseSuggestions(reply') # <<>>
       THEN lastSuggestions' = parseSuggestions(reply') /\ lastResults' = <<>>
       ELSE UNCHANGED <<lastResults, lastSuggestions>>]_vars

C10_Witness ==
  /\ cmd.op = "ask" /\ pc = "done"
  /\ reply = Reply("ok", <<Entry("a1", ""), Entry("a2", "t2")>>)
  /\ lastSuggestions = <<"a2 t2">>
  /\ lastResults = <<>>
  /\ stale = FALSE

\* an ask whose reply held no track leaves earlier search results in place
C10_WitnessKept ==
  /\ cmd.op = "ask" /\ pc = "done"
  /\ reply = Reply("malformed", <<>>)
  /\ lastResults # <<>>

(* ======================= the claims, C11 .. C20 ======================== *)
\* the line controlPlayback prints instead of the call
NotReady == Msg("Not connected or no zone selected", 0)

\* play without a number, pause, stop, next
IsControl(c) == c.op \in {"pause", "stop", "next"} \/ (c.op = "play" /\ c.q = "")

\* no transport control call and no zone-scoped action call is on record
NoZoneCalls ==
  \A k \in 1..Len(calls) : calls[k].op # "control" /\ ~ZoneScoped(calls[k])

\* C11: a playback command typed while the transport handle is null or no
\* zone is selected prints the not-ready line and makes no control call;
\* and as long as no zone has been selected, no command makes a control
\* call or a zone-scoped play / queue action call.
C11_PlaybackReadiness ==
  [][/\ (pc = "prompt" /\ IsControl(cmd') /\ (~transport \/ activeZoneId = NoZone)) =>
          (calls' = <<>> /\ out' = <<NotReady>> /\ pc' = "done")
     /\ activeZoneId' = NoZone => NoZoneCalls']_vars

\* paired, the zone list arrived empty, and play was typed
C11_Witness ==
  /\ transport /\ sub = "live" /\ zones = <<>> /\ activeZoneId = NoZone
  /\ pc = "done" /\ cmd.op = "play" /\ cmd.q = ""
  /\ out = <<NotReady>> /\ calls = <<>>

(* ------------------------ C12 .. C14: searchTracks --------------------- *)
\* in e, searchTracks made no remote call for the number in hand beyond
\* those on record
NoFurtherCall(e) ==
  \A k \in 1..Len(e.calls) :
    (e.calls[k].i = i /\ e.calls[k].fn = "searchTracks") =>
      (k <= Len(calls) /\ e.calls[k] = calls[k])

\* e ended on the lost browse handle without a further call
LostHandleIn(e) ==
  e.pc = "done" /\ Last(e.out) = Msg("Error: TypeError", 0) /\ e.calls = calls

\* searchTracks returned res to the dispatcher, as far as e shows it: the
\* search command stores it
ReturnedToSearch(e, res) ==
  cmd.op = "search" => (e.pc = "done" /\ e.lastResults = res)

\* C12: when the root browse reports zero matches, searchTracks returns the
\* empty sequence and makes no further remote call: from every state in
\* which the root browse is pending.
C12_ZeroMatches ==
  pc = "search_browse" =>
    LET e == searchBrowsed(Cur, BrowseOk(0, <<>>)) IN
    /\ NoFurtherCall(e)
    /\ ReturnedToSearch(e, <<>>)
    /\ cmd.op = "search" => Last(e.out) = Msg("No tracks found", 0)
    /\ cmd.op \in {"play", "queue"} =>
         /\ Len(e.out) >= Len(out) + 2
         /\ e.out[Len(out) + 2] = Msg("Track not found", CurNum(Cur))

C12_Witness ==
  /\ cmd.op = "search" /\ pc = "done"
  /\ calls = <<Call("searchTracks", "browse", "q1", NoKey, "", 0, 1)>>
  /\ out = <<Msg("Searching", 0), Msg("No results found", 0), Msg("No tracks found", 0)>>
  /\ lastResults = <<>>

HasTracks(cats) == \E k \in 1..Len(cats) : cats[k].title = "Tracks"

\* what the browse into Tracks may answer
TracksAnswers == (BrowseAnswers(TrackCounts) \cup {BrowseOk(0, TrackList(1, 0))}) \ {BrowseErr}

\* C13 as stated: with an entry titled Tracks among the categories, no
\* top-level entry is ever returned, and at most 10 items are requested
\* and returned.
C13_OnlyTracksEntries ==
  /\ pc = "search_load" =>
       \A cats \in CategoryLists :
         LET e == categoriesLoaded(Cur, LoadOk(cats)) IN
         (HasTracks(cats) /\ cmd.op = "search" /\ e.lastResults # lastResults) =>
           \A k \in 1..Len(e.lastResults) :
             \A j \in 1..Len(cats) : e.lastResults[k] # cats[j]
  /\ pc = "tracks_browse" =>
       \A r \in TracksAnswers :
         LET e == tracksBrowsed(Cur, r) IN
         \A k \in 1..Len(e.calls) : e.calls[k].count <= TrackCap
  /\ (pc = "tracks_load" /\ cmd.op = "search") =>
       \A l \in TrackLists : Len(tracksLoaded(Cur, LoadOk(l)).lastResults) <= TrackCap

\* C13, amended: when the first entry titled Tracks carries a key,
\* searchTracks browses into it (unless the browse handle was lost) and
\* returns what the Tracks category delivers: with a count reported, the
\* items of a load that asks for min(10, count) of them; with none, the
\* inline items of the browse answer; never a top-level entry.
C13_TracksCategory ==
  /\ pc = "search_load" =>
       \A cats \in CategoryLists :
         LET e == categoriesLoaded(Cur, LoadOk(cats))
             first == FindTitle(cats, {"Tracks"})
         IN (first # <<>> /\ first[1].item_key # NoKey) =>
              \/ /\ e.pc = "tracks_browse"
                 /\ e.calls = Append(calls, Call("searchTracks", "browse", "",
                                                 first[1].item_key, "", 0, i))
                 /\ e.lastResults = lastResults
              \/ LostHandleIn(e)
  /\ pc = "tracks_browse" =>
       \A r \in TracksAnswers :
         LET e == tracksBrowsed(Cur, r) IN
         IF r.count # 0
         THEN \/ /\ e.pc = "tracks_load"
                 /\ Len(e.calls) = Len(calls) + 1
                 /\ Last(e.calls).op = "load"
                 /\ Last(e.calls).count = (IF r.count > 10 THEN 10 ELSE r.count)
              \/ LostHandleIn(e)
         ELSE NoFurtherCall(e) /\ ReturnedToSearch(e, r.items)
  /\ pc = "tracks_load" =>
       \A l \in TrackLists :
         LET e == tracksLoaded(Cur, LoadOk(l)) IN
         NoFurtherCall(e) /\ ReturnedToSearch(e, l)

\* the category reported 12 tracks, 10 were asked for
C13_Witness ==
  /\ cmd.op = "search" /\ pc = "done"
  /\ Len(calls) = 4
  /\ calls[3] = Call("searchTracks", "browse", "", "ct", "", 0, 1)
  /\ calls[4] = Call("searchTracks", "load", "", NoKey, "", 10, 1)
  /\ lastResults = TrackList(1, 0)

\* C14: with no entry titled Tracks among the categories, searchTracks
\* makes no further remote call and returns the top-level entries that
\* have the action hint or a key, in their order.
C14_NoTracksFallback ==
  pc = "search_load" =>
    \A cats \in CategoryLists :
      ~HasTracks(cats) =>
        LET e == categoriesLoaded(Cur, LoadOk(cats))
            keep == {k \in 1..Len(cats) :
                       cats[k].hint = "action" \/ cats[k].item_key # NoKey}
            res == e.lastResults
        IN /\ NoFurtherCall(e)
           /\ cmd.op = "search" =>
                /\ e.pc = "done"
                /\ Len(res) = Cardinality(keep)
                /\ \A k \in 1..Len(res) :
                     \E j \in keep :
                       /\ res[k] = cats[j]
                       /\ Cardinality({m \in keep : m < j}) = k - 1

C14_Witness ==
  /\ cmd.op = "search" /\ pc = "done"
  /\ Len(calls) = 2 /\ calls[2].op = "load"
  /\ lastResults = <<Item("Direct", NoKey, "action"), Item("Albums", "cb", "list")>>
  /\ out = <<Msg("Searching", 0), Msg("Results", 0)>>

(* ------------------------ C15: parseSuggestions ------------------------ *)
\* "artist title" for each entry with both fields, in block order
RECURSIVE JoinComplete(_)
JoinComplete(ts) ==
  IF ts = <<>> THEN <<>>
  ELSE LET t == Head(ts)
           rest == JoinComplete(Tail(ts))
       IN IF t.artist # "" /\ t.track # ""
          THEN <<t.artist \o " " \o t.track>> \o rest
          ELSE rest

\* the suggestion list the reply r stands for
ExpectedSuggestions(r) == IF r.block = "ok" THEN JoinComplete(r.tracks) ELSE <<>>

\* the number of entries of r with both fields
CompleteEntries(r) ==
  Cardinality({k \in 1..Len(r.tracks) : r.tracks[k].artist # "" /\ r.tracks[k].track # ""})

\* C15: once a reply is handled, the list extracted from it has one
\* "artist title" per complete entry of a well-formed block, in block
\* order, and is empty for a reply without a block, with a block that does
\* not parse or with one of the wrong shape; no error line is printed.
\* suggest stores the extracted list as it is, ask when it is not empty.
C15_SuggestionExtraction ==
  (cmd.op \in {"ask", "suggest"} /\ pc = "done" /\ reply # NoReply) =>
    LET expected == ExpectedSuggestions(reply) IN
    /\ ~HasMsg("Coach error") /\ NoErrorShown
    /\ reply.block = "ok" => Len(expected) = CompleteEntries(reply)
    /\ reply.block # "ok" => expected = <<>>
    /\ cmd.op = "suggest" => lastSuggestions = expected
    /\ (cmd.op = "ask" /\ expected # <<>>) => lastSuggestions = expected

C15_Witness ==
  /\ cmd.op = "suggest" /\ pc = "done"
  /\ reply = Reply("ok", <<Entry("a1", ""), Entry("a2", "t2")>>)
  /\ lastSuggestions = <<"a2 t2">>
  /\ out = <<Msg("Getting suggestions", 0), Msg("display", 0), Msg("tracks ready", 1)>>

(* ------------------------- C16, C17: the main loop --------------------- *)
\* main's loop goes round: after handleCommand has returned or thrown, the
\* empty line is printed and the next prompt issued
FairSpec == Spec /\ WF_vars(NextPrompt)

\* the lines that report a failure of the command in hand
FailureMsgs ==
  {"Error: remote", "Error: TypeError", "Error: Not connected to Roon",
   "Error: Not connected or no zone selected", "Not connected or no zone selected",
   "Coach error", "Usage", "Invalid number", "Track not found",
   "Play action not found", "Queue action not found"}

FailureShown == \E k \in 1..Len(out) : out[k].msg \in FailureMsgs

\* C16: the process never ends on a command's reported failure, and a
\* command that has ended with a failure reported is followed by the next
\* prompt, unless the user leaves (exit, quit, end of input) first.
C16_FailureKeepsLoop ==
  /\ [](FailureShown => pc # "exited")
  /\ (pc = "done" /\ FailureShown) ~> (pc = "prompt" \/ pc = "exited")

\* the coach failed
C16_Witness ==
  /\ pc = "done" /\ cmd.op = "ask"
  /\ out = <<Msg("Thinking", 0), Msg("Coach error", 0)>>
  /\ reply = NoReply

\* handleCommand is suspended on a remote call
Suspended == pc \in SearchPcs \cup WalkPcs \cup {"coach"}

\* C17: a command is taken up only at the prompt, after the one before has
\* returned; a remote call is issued only by the command in hand, when it
\* starts or when it is resumed; a suspended command stays the command in
\* hand until it ends (or the process exits); and a pairing or zone event
\* leaves the command, its position and its calls as they are.
C17_Serialized ==
  [][/\ (cmd' # cmd /\ cmd' # NoCmd) => (pc = "prompt" /\ cmd = NoCmd /\ calls = <<>>)
     /\ (calls' # calls /\ calls' # <<>>) => (pc = "prompt" \/ (Suspended /\ cmd' = cmd))
     /\ Suspended => (cmd' = cmd \/ pc' = "exited")
     /\ ((transport' # transport \/ zones' # zones \/ sub' # sub) /\ pc' # "exited") =>
          UNCHANGED <<cmd, pc, calls, out>>]_vars

\* the core unpaired while play was waiting for the action menu
C17_Witness ==
  /\ cmd.op = "play" /\ pc = "item_load"
  /\ ~browse /\ sub = "none"
  /\ Len(calls) = 2

(* --------------------- C18, C19: connection and zones ------------------ *)
NotConnectedMsgs ==
  {"Error: Not connected to Roon", "Error: Not connected or no zone selected"}

\* search q, play n or queue n... is being typed while the browse handle
\* is null
TypedOffline ==
  /\ pc = "prompt" /\ ~browse
  /\ cmd'.op \in {"search", "play", "queue"} /\ cmd'.q # ""

\* the number n leads the dispatcher to the walker or to a fresh search
Resolves(n) ==
  \/ InRange(n, lastResults) /\ lastResults[n].item_key # NoKey
  \/ ~InRange(n, lastResults) /\ InRange(n, lastSuggestions)

\* the command c has something to ask the controller for
NeedsConnection(c) ==
  \/ c.op = "search"
  \/ c.op = "play" /\ ~c.n.nan /\ Resolves(c.n.v)
  \/ c.op = "queue" /\ \E k \in 1..Len(c.nums) : Resolves(c.nums[k])

\* the numbers typed with the command c are all 1 or more
PositiveNumbers(c) ==
  /\ c.op = "play" => (~c.n.nan /\ c.n.v >= 1)
  /\ c.op = "queue" => (c.nums # <<>> /\ \A k \in 1..Len(c.nums) : c.nums[k] >= 1)

\* C18 as stated: without the browse handle, search q, play n and queue n
\* (n = 1, 2, ...) each end at once on a not-connected error, with no
\* remote call.
C18_OfflineReported ==
  [][(TypedOffline /\ PositiveNumbers(cmd')) =>
       /\ calls' = <<>> /\ pc' = "done"
       /\ out' # <<>> /\ Last(out').msg \in NotConnectedMsgs]_vars

\* C18, amended: without the browse handle, search q, play n and queue n
\* make no remote call and end at once, back in the main loop; the
\* command ends on a not-connected error exactly when it has something
\* to ask the controller for (a search; a number that selects a search
\* result with a key, or a suggestion); numbers that select nothing are
\* reported invalid, ahead of the error if one follows.
C18_OfflineNoCall ==
  [][TypedOffline =>
       /\ calls' = <<>> /\ pc' = "done"
       /\ NeedsConnection(cmd') <=>
            (out' # <<>> /\ Last(out').msg \in NotConnectedMsgs)
       /\ \A k \in 1..Len(out') :
            \/ out'[k].msg \in {"Searching", "Searching for", "Playing", "Queueing",
                                "Invalid number"}
            \/ k = Len(out') /\ out'[k].msg \in NotConnectedMsgs]_vars

\* never paired: play 1 on a suggestion of the coach
C18_Witness ==
  /\ ~browse /\ ~transport /\ activeZoneId = NoZone /\ lastResults = <<>>
  /\ cmd.op = "play" /\ cmd.n = Num(1) /\ pc = "done"
  /\ calls = <<>>
  /\ out = <<Msg("Searching for", 1), Msg("Error: Not connected to Roon", 0)>>

\* zone n is being typed with n no 1-based index into the known zones
BadZoneTyped ==
  /\ pc = "prompt"
  /\ cmd'.op = "zone" /\ cmd'.q = "arg"
  /\ cmd'.n.nan \/ cmd'.n.v <= 0 \/ cmd'.n.v > Len(zones)

\* C19: zone n with n not a number, n <= 0 or n beyond the known zones
\* prints a line that tells the user so, and the selection stays.
C19_BadZoneReported ==
  [][BadZoneTyped => (out' # <<>> /\ activeZoneId' = activeZoneId)]_vars

\* the part of C19 the code does meet: the selection stays
C19_SelectionKept ==
  [][BadZoneTyped => (activeZoneId' = activeZoneId /\ pc' = "done")]_vars

(* ============ the non-interactive variant, src/test-play.ts ============ *)
(* The same state, as test-play.ts keeps it: transport, browse and         *)
(* activeZoneId, the position of runTest in pc ("t_connecting" until it    *)
(* starts, "exit0" / "exit1" once process.exit has been called), its       *)
(* remote calls and console lines.  test-play.ts keeps no zones map and    *)
(* no lists.  Its playItem is the interactive one without the entry test,  *)
(* so its continuations are the ones above.                                *)
TestExits == {"exit0", "exit1"}

\* process.exit(code)
test_exit(e, code) == [e EXCEPT !.pc = code]

\* runTest's catch: console.error and process.exit(1)
test_caught(e) == test_exit(Say(e, Msg("Error: remote", 0)), "exit1")

test_playItem(e, itemKey) ==
  browseAsync(WalkEntry(e), "playItem", "", itemKey, "", "item_browse")

\* runTest after searchTracks has returned tracks
test_found(e, tracks) ==
  IF tracks = <<>> THEN test_exit(Say(e, Msg("No tracks found", 0)), "exit1")
  ELSE test_playItem(Say(e, Msg("Playing first track", 1)), tracks[1].item_key)

\* runTest after playItem has settled: thrown into the catch, or returned
test_settled(e) ==
  IF e.pc # "done" THEN e
  ELSE IF e.walkResult = "threw" THEN test_exit(e, "exit1")
  ELSE test_exit(Say(e, Msg("Test complete", 0)), "exit0")

\* runTest starts: searchTracks(query) up to its first await
runTest(e) ==
  browseAsync(Say(e, Msg("Searching", 0)), "searchTracks", "q1", NoKey, "", "search_browse")

test_searchBrowsed(e, r) ==
  IF r.err THEN test_caught(e)
  ELSE IF r.count = 0 THEN test_found(Say(e, Msg("No results", 0)), <<>>)
  ELSE loadAsync(e, "searchTracks", r.count, "search_load")

test_categoriesLoaded(e, r) ==
  IF r.err THEN test_caught(e)
  ELSE IF r.items = <<>> THEN test_found(Say(e, Msg("No categories", 0)), <<>>)
  ELSE LET tracksItem == FindTitle(r.items, {"Tracks"}) IN
    IF tracksItem = <<>> \/ tracksItem[1].item_key = NoKey
    THEN test_found(Say(e, Msg("No Tracks category", 0)),
                    SelectSeq(r.items, LAMBDA it : it.hint = "action" \/ it.item_key # NoKey))
    ELSE browseAsync(e, "searchTracks", "", tracksItem[1].item_key, "", "tracks_browse")

test_tracksBrowsed(e, r) ==
  IF r.err THEN test_caught(e)
  ELSE IF r.count # 0
       THEN loadAsync(e, "searchTracks", Min(TrackCap, r.count), "tracks_load")
       ELSE test_found(e, <<>>)

test_tracksLoaded(e, r) ==
  IF r.err THEN test_caught(e)
  ELSE test_found(e, r.items)

\* the variables one resumption of test-play.ts may write
TestSet(e) ==
  /\ pc' = e.pc
  /\ calls' = e.calls
  /\ out' = e.out
  /\ actions' = e.actions
  /\ loaded' = e.loaded
  /\ matched' = e.matched
  /\ walkResult' = e.walkResult
  /\ activeZoneId' = e.activeZoneId
  /\ UNCHANGED <<cmd, i, reply, stale, lastResults, lastSuggestions, zones>>

TestInit ==
  /\ transport = FALSE
  /\ browse = FALSE
  /\ sub = "none"
  /\ zones = <<>>
  /\ activeZoneId = NoZone
  /\ lastResults = <<>>
  /\ lastSuggestions = <<>>
  /\ pc = "t_connecting"
  /\ cmd = Cmd("test", Num(1), <<>>, "q1")
  /\ i = 1
  /\ calls = <<>>
  /\ out = <<>>
  /\ actions = <<>>
  /\ reply = NoReply
  /\ loaded = <<>>
  /\ matched = FALSE
  /\ walkResult = "none"
  /\ stale = FALSE

\* core_paired
TestPaired ==
  /\ pc \notin TestExits
  /\ ~transport
  /\ transport' = TRUE
  /\ browse' = TRUE
  /\ sub' = "pending"
  /\ UNCHANGED <<zones, activeZoneId>>
  /\ UNCHANGED Session

\* core_unpaired: process.exit(1)
TestUnpaired ==
  /\ pc \notin TestExits
  /\ transport
  /\ TestSet(test_exit(Cur, "exit1"))
  /\ UNCHANGED <<transport, browse, sub>>

\* the subscription's first push: with a zone, the zone is taken and
\* runTest starts; without one, nothing happens
TestSubscribed ==
  /\ pc \notin TestExits
  /\ sub = "pending"
  /\ sub' = "live"
  /\ \E zs \in ZoneLists :
       IF zs # <<>>
       THEN TestSet(runTest([Cur EXCEPT !.activeZoneId = zs[1]]))
       ELSE TestSet(Cur)
  /\ UNCHANGED <<transport, browse>>

\* the 10 s timer fires with no transport handle: process.exit(1).  With a
\* handle it changes nothing
TestTimeout ==
  /\ pc \notin TestExits
  /\ ~transport
  /\ TestSet(test_exit(Say(Cur, Msg("Timeout waiting for Roon", 0)), "exit1"))
  /\ UNCHANGED <<transport, browse, sub>>

\* a browse / load callback of test-play.ts's searchTracks fires
TestSearchStep ==
  /\ UNCHANGED <<transport, browse, sub>>
  /\ \/ /\ pc = "search_browse"
        /\ \E r \in BrowseAnswers(RootCounts) : TestSet(test_searchBrowsed(Cur, r))
     \/ /\ pc = "search_load"
        /\ \E r \in LoadAnswers(CategoryLists) : TestSet(test_categoriesLoaded(Cur, r))
     \/ /\ pc = "tracks_browse"
        /\ \E r \in BrowseAnswers(TrackCounts) : TestSet(test_tracksBrowsed(Cur, r))
     \/ /\ pc = "tracks_load"
        /\ \E r \in LoadAnswers(TrackLists) : TestSet(test_tracksLoaded(Cur, r))

\* a browse / load callback of test-play.ts's playItem fires
TestPlayStep ==
  /\ UNCHANGED <<transport, browse, sub>>
  /\ \/ /\ pc = "item_browse"
        /\ \E r \in BrowseAnswers(ActionCounts) :
             TestSet(test_settled(playItemBrowsed(Cur, r)))
     \/ /\ pc = "item_load"
        /\ \E r \in LoadAnswers(ActionLists) :
             TestSet(test_settled(playItemLoaded(Cur, r)))
     \/ /\ pc = "drill_browse"
        /\ \E r \in BrowseAnswers(ActionCounts) :
             TestSet(test_settled(playDrillBrowsed(Cur, r)))
     \/ /\ pc = "drill_load"
        /\ \E r \in LoadAnswers(ActionLists) :
             TestSet(test_settled(playDrillLoaded(Cur, r)))
     \/ /\ pc = "action_browse"
        /\ \E r \in BrowseAnswers({0}) :
             TestSet(test_settled(playActionBrowsed(Cur, r)))

\* the steps the runtime and the controller owe the program: the timer,
\* the subscription's answer, the answers to its browse and load calls
TestProgress ==
  \/ TestTimeout
  \/ TestSubscribed
  \/ TestSearchStep
  \/ TestPlayStep

TestNext ==
  \/ TestPaired
  \/ TestUnpaired
  \/ TestProgress

TestSpec == TestInit /\ [][TestNext]_vars /\ WF_vars(TestProgress)

(* ------------------------------- C20 ----------------------------------- *)
\* C20: test-play.ts always terminates: as long as it has not exited,
\* something is still to come that takes it further (the timer, the
\* subscription's answer, the answer to a pending call), whatever pairing
\* and zone events arrived; and it exits with 0 only after the one
\* search-then-play cycle has run through.
C20_TestTerminates ==
  /\ pc \in TestExits \/ ENABLED TestProgress
  /\ pc = "exit0" => (walkResult = "returned" /\ Last(out) = Msg("Test complete", 0))

(* ======================= the claims, C21 .. C27 ======================== *)
(* ------------------------------- C21 ----------------------------------- *)
\* C21: every step that starts a play or queue command or takes one
\* further (a typed line, an answer of the controller, a pairing or zone
\* event while it waits) leaves lastResults and lastSuggestions as they
\* are, whatever the outcome; the fresh search that re-resolves a
\* suggestion does not store its tracks.
C21_SelectionReadOnly ==
  [][cmd'.op \in {"play", "queue"} => UNCHANGED <<lastResults, lastSuggestions>>]_vars

\* play n on a suggestion: the fresh search found a track and it was played
C21_Witness ==
  /\ cmd.op = "play" /\ pc = "done" /\ walkResult = "returned"
  /\ HasMsg("Playing (found)")
  /\ lastResults = <<>> /\ lastSuggestions # <<>>

(* ------------------------------- C22 ----------------------------------- *)
\* the command in hand, were the call it is waiting for to fail now
FailedNow ==
  CASE pc = "search_browse" -> searchBrowsed(Cur, BrowseErr)
    [] pc = "search_load" -> categoriesLoaded(Cur, LoadErr)
    [] pc = "tracks_browse" -> tracksBrowsed(Cur, BrowseErr)
    [] pc = "tracks_load" -> tracksLoaded(Cur, LoadErr)
    [] pc = "coach" -> coachReplied(Cur, CoachError)
    [] OTHER -> Cur

\* a search, ask or suggest is waiting for its remote call
AwaitingRemote ==
  \/ cmd.op = "search" /\ pc \in SearchPcs
  \/ cmd.op \in {"ask", "suggest"} /\ pc = "coach"

RemoteErrorMsg ==
  IF cmd.op = "search" THEN Msg("Error: remote", 0) ELSE Msg("Coach error", 0)

\* C22: whichever browse / load call of a search fails, or the coach call
\* of ask / suggest, the command ends there with the error reported, makes
\* no further call and leaves lastResults and lastSuggestions alone; and no
\* step of such a command before its end, nor the step that ends it with
\* the error, has changed either list.
C22_FailureKeepsLists ==
  /\ [](AwaitingRemote =>
         /\ FailedNow.pc = "done"
         /\ Last(FailedNow.out) = RemoteErrorMsg
         /\ FailedNow.calls = calls
         /\ FailedNow.lastResults = lastResults
         /\ FailedNow.lastSuggestions = lastSuggestions)
  /\ [][(/\ cmd'.op \in {"search", "ask", "suggest"}
         /\ \/ pc' # "done"
            \/ Last(out') \in {Msg("Error: remote", 0), Msg("Coach error", 0)})
        => UNCHANGED <<lastResults, lastSuggestions>>]_vars

\* the load of the tracks failed: the results of the search before are kept
C22_Witness ==
  /\ cmd.op = "search" /\ pc = "done"
  /\ Last(out) = Msg("Error: remote", 0)
  /\ Len(calls) = 4
  /\ lastResults # <<>>

\* the coach failed: the suggestions of the request before are kept
C22_WitnessCoach ==
  /\ cmd.op = "suggest" /\ pc = "done"
  /\ Last(out) = Msg("Coach error", 0)
  /\ lastSuggestions # <<>>

(* ------------------------------- C23 ----------------------------------- *)
\* the walk in hand, were the call it is waiting for to fail now
WalkFailedNow ==
  IF cmd.op = "play" THEN
    CASE pc = "item_browse" -> playItemBrowsed(Cur, BrowseErr)
      [] pc = "item_load" -> playItemLoaded(Cur, LoadErr)
      [] pc = "drill_browse" -> playDrillBrowsed(Cur, BrowseErr)
      [] pc = "drill_load" -> playDrillLoaded(Cur, LoadErr)
      [] pc = "action_browse" -> playActionBrowsed(Cur, BrowseErr)
      [] OTHER -> Cur
  ELSE
    CASE pc = "item_browse" -> queueItemBrowsed(Cur, BrowseErr)
      [] pc = "item_load" -> queueItemLoaded(Cur, LoadErr)
      [] pc = "drill_browse" -> queueDrillBrowsed(Cur, BrowseErr)
      [] pc = "drill_load" -> queueDrillLoaded(Cur, LoadErr)
      [] pc = "action_browse" -> queueActionBrowsed(Cur, BrowseErr)
      [] OTHER -> Cur

\* the calls of kind op that the functions fns made for the number in hand
CallsOf(fns, op) == Len(SelectSeq(calls, LAMBDA c : c.fn \in fns /\ c.op = op))

\* C23: a failing browse / load call ends searchTracks, playItem or
\* queueItem at once, with that failure and without another call (none is
\* issued again); for one number searchTracks makes at most 2 browse and 2
\* load calls, and playItem / queueItem at most 3 browse and 2 load calls.
C23_NoRetryBoundedWalk ==
  /\ pc \in SearchPcs =>
       /\ FailedNow.pc = "done"
       /\ FailedNow.calls = calls
       /\ Last(FailedNow.out) = Msg("Error: remote", 0)
  /\ pc \in WalkPcs =>
       /\ WalkFailedNow.pc = "done"
       /\ WalkFailedNow.calls = calls
       /\ WalkFailedNow.walkResult = "threw"
       /\ Last(WalkFailedNow.out) = Msg("Error: remote", 0)
  /\ CallsOf({"searchTracks"}, "browse") <= 2
  /\ CallsOf({"searchTracks"}, "load") <= 2
  /\ CallsOf({"playItem", "queueItem"}, "browse") <= 3
  /\ CallsOf({"playItem", "queueItem"}, "load") <= 2

\* the longest walk, and its last call failed: two searches' worth of calls
\* before it, the drill, and the action call
C23_Witness ==
  /\ cmd.op = "play" /\ pc = "done" /\ walkResult = "threw"
  /\ Last(out) = Msg("Error: remote", 0)
  /\ CallsOf({"searchTracks"}, "browse") = 2 /\ CallsOf({"searchTracks"}, "load") = 2
  /\ CallsOf({"playItem"}, "browse") = 3 /\ CallsOf({"playItem"}, "load") = 2

(* ------------------------------- C24 ----------------------------------- *)
\* the answers the controller may give to the call the walk is waiting for
WalkAnswers ==
  IF pc \in {"item_browse", "drill_browse"} THEN BrowseAnswers(ActionCounts)
  ELSE IF pc \in {"item_load", "drill_load"} THEN LoadAnswers(ActionLists)
  ELSE BrowseAnswers({0})

\* playItem / queueItem resumed from the state in hand with answer r
PlayOn(r) ==
  CASE pc = "item_browse" -> playItemBrowsed(Cur, r)
    [] pc = "item_load" -> playItemLoaded(Cur, r)
    [] pc = "drill_browse" -> playDrillBrowsed(Cur, r)
    [] pc = "drill_load" -> playDrillLoaded(Cur, r)
    [] OTHER -> playActionBrowsed(Cur, r)

QueueOn(r) ==
  CASE pc = "item_browse" -> queueItemBrowsed(Cur, r)
    [] pc = "item_load" -> queueItemLoaded(Cur, r)
    [] pc = "drill_browse" -> queueDrillBrowsed(Cur, r)
    [] pc = "drill_load" -> queueDrillLoaded(Cur, r)
    [] OTHER -> queueActionBrowsed(Cur, r)

\* a sequence of calls, whoever made them
Neutral(cs) == [k \in 1..Len(cs) |-> [cs[k] EXCEPT !.fn = "walk"]]

\* a walk is waiting, before its title match
BeforeMatch == cmd.op \in {"play", "queue"} /\ pc \in WalkPcs \ {"action_browse"}

\* up to the match the two walkers do the same on answer r.  Once playItem
\* has run its match on answer r, its `actions` is the final list of both
\* (queue's for loop may already have taken the next number)
SameWalk(r) ==
  LET p == PlayOn(r)
      q == QueueOn(r)
  IN ~p.matched =>
       /\ ~q.matched
       /\ p.actions = q.actions
       /\ p.pc = q.pc
       /\ Neutral(p.calls) = Neutral(q.calls)

\* acts holds some entry with a title of ts and a key
SomeKeyed(acts, ts) ==
  \E k \in 1..Len(acts) : acts[k].title \in ts /\ acts[k].item_key # NoKey

\* the first entry of acts with a title of ts has a key
FirstKeyed(acts, ts) ==
  LET first == FindTitle(acts, ts) IN first # <<>> /\ first[1].item_key # NoKey

\* the walker fn has gone on to its action call after the match in e
ActionIssued(e, fn) ==
  /\ e.pc = "action_browse"
  /\ Len(e.calls) = Len(calls) + 1
  /\ Last(e.calls).fn = fn
  /\ Last(e.calls).zone = activeZoneId
  /\ activeZoneId # NoZone

\* C24 as stated: playItem and queueItem make the same calls up to the
\* title match, and each goes on to the zone-scoped action call exactly
\* when some entry with one of its titles and a key is in the final list.
C24_SameWalkAnyKeyed ==
  BeforeMatch =>
    \A r \in WalkAnswers :
      /\ SameWalk(r)
      /\ (PlayOn(r).matched /\ browse) =>
           /\ ActionIssued(PlayOn(r), "playItem") <=> SomeKeyed(PlayOn(r).actions, PlayTitles)
           /\ ActionIssued(QueueOn(r), "queueItem") <=> SomeKeyed(PlayOn(r).actions, QueueTitles)

\* C24, amended: playItem and queueItem make the same first call for an item
\* key and the same calls on the same answers up to the title match; each
\* goes on to the zone-scoped action call, with the key of the first entry
\* that has one of its titles, exactly when that first entry carries a key;
\* when the connection was lost meanwhile, neither call reaches the
\* controller and both end on the same error.
C24_SameWalkFirstKeyed ==
  /\ LET p == playItem(Cur, "k1")
         q == queueItem(Cur, "k1")
     IN p.pc = q.pc /\ Neutral(p.calls) = Neutral(q.calls)
  /\ BeforeMatch =>
       \A r \in WalkAnswers :
         LET p == PlayOn(r)
             q == QueueOn(r)
         IN /\ SameWalk(r)
            /\ (p.matched /\ browse) =>
                 /\ ActionIssued(p, "playItem") <=> FirstKeyed(p.actions, PlayTitles)
                 /\ ActionIssued(q, "queueItem") <=> FirstKeyed(p.actions, QueueTitles)
                 /\ ActionIssued(p, "playItem") =>
                      Last(p.calls).key = FindTitle(p.actions, PlayTitles)[1].item_key
                 /\ ActionIssued(q, "queueItem") =>
                      Last(q.calls).key = FindTitle(p.actions, QueueTitles)[1].item_key
            /\ (p.matched /\ ~browse) =>
                 /\ ~ActionIssued(p, "playItem") /\ ~ActionIssued(q, "queueItem")
                 /\ FirstKeyed(p.actions, PlayTitles) =>
                      Last(p.out) = Msg("Error: TypeError", 0)
                 /\ FirstKeyed(p.actions, QueueTitles) =>
                      Last(q.out) = Msg("Error: TypeError", 0)

\* queue n has drilled through the versions entry and waits for the answer
\* to its Queue call
C24_Witness ==
  /\ cmd.op = "queue" /\ pc = "action_browse"
  /\ Len(WalkCalls) = 5
  /\ Last(calls) = Call("queueItem", "browse", "", "aq", "z1", 0, i)
  /\ loaded = actions

(* ---------------------------- C25, C26: zones -------------------------- *)
InZones(z) == \E k \in 1..Len(zones) : zones[k] = z

\* C25: in every reachable state the active zone id is unset or the id of a
\* zone that is in the zone map.
C25_ActiveZoneValid == activeZoneId = NoZone \/ InZones(activeZoneId)

\* C26 as stated: whenever the controller is connected and the zone map is
\* non-empty, a zone is selected, whichever push delivered the zones.
C26_KnownZoneSelected ==
  (transport /\ zones # <<>>) => activeZoneId # NoZone

\* the selection after a listing of a non-empty zone map
Listed ==
  /\ activeZoneId' # NoZone
  /\ activeZoneId = NoZone => activeZoneId' = zones'[1]
  /\ activeZoneId # NoZone => activeZoneId' = activeZoneId

\* C26, what the code does keep: whenever the initial push delivers zones, or
\* `zones` is typed while the zone map is non-empty, a zone is selected at
\* the end of that step (the first of the map when none was); a later
\* change event leaves the selection as it is, so zones it delivers stay
\* unselected until `zones` or `zone n`; a selection is never unset while
\* the process runs; hence a playback command typed while connected after
\* such a step makes its control call for the selected zone and does not
\* report "no zone selected".
C26_ListedZoneSelected ==
  [][/\ (sub = "pending" /\ sub' = "live" /\ zones' # <<>>) => Listed
     /\ (pc = "prompt" /\ cmd'.op = "zones" /\ zones' # <<>>) => Listed
     /\ (sub = "live" /\ sub' = "live" /\ zones' # zones) => activeZoneId' = activeZoneId
     /\ (activeZoneId # NoZone /\ pc' # "exited") => activeZoneId' # NoZone
     /\ (pc = "prompt" /\ IsControl(cmd') /\ transport /\ activeZoneId # NoZone) =>
          /\ out' # <<NotReady>>
          /\ Len(calls') = 1
          /\ calls'[1].op = "control" /\ calls'[1].zone = activeZoneId]_vars

\* the zone came with the initial push, was selected, and pause was typed
C26_Witness ==
  /\ transport /\ sub = "live" /\ zones = <<"z1">> /\ activeZoneId = "z1"
  /\ pc = "done" /\ cmd.op = "pause"
  /\ out = <<Msg("pause", 0)>>
  /\ calls = <<Call("controlPlayback", "control", "pause", NoKey, "z1", 0, 1)>>

(* ------------------------------- C27 ----------------------------------- *)
\* a step in which the awaited answer arrives after the core has unpaired
\* (and has not paired again)
AnsweredOffline ==
  /\ pc \in SearchPcs \cup WalkPcs
  /\ ~browse
  /\ pc' # "exited"
  /\ ~UNCHANGED <<pc, out, calls, i>>

\* the lines a command ends on when it has nothing more to ask for
CompletionMsgs ==
  {"Results", "No tracks found", "Track not found", "Play action not found",
   "Queue action not found", "Queued", "Invalid number"}

\* after the answer: the command is over (main's loop is at its next
\* prompt), no call was added, and the lists
\* are as they were or, for a search that got its last answer, lastResults
\* is the whole result
EndedWithoutCall ==
  /\ pc' = "done"
  /\ Len(calls') <= Len(calls)
  /\ \A k \in 1..Len(calls') : calls'[k] = calls[k]
  /\ lastSuggestions' = lastSuggestions
  /\ cmd.op # "search" => lastResults' = lastResults
  /\ (cmd.op = "search" /\ lastResults' # lastResults) =>
       /\ Last(out').msg \in {"Results", "No tracks found"}
       /\ (lastResults' = <<>>) <=> (Last(out').msg = "No tracks found")

ErrorReported == out' # <<>> /\ out' # out /\ IsError(Last(out'))

\* C27 as stated: when the awaited answer arrives after an unpair, no
\* further call is made for the command, the command ends with a reported
\* error and the next prompt follows, and the lists are not left partially
\* updated.
C27_OfflineEndsInError ==
  [][AnsweredOffline => (EndedWithoutCall /\ ErrorReported)]_vars

\* C27, amended: when the awaited answer arrives after an unpair, no
\* further call is made for the command and the command ends at that answer,
\* the next prompt following: with a reported error when the answer was a
\* failure or the command had another call to make, and otherwise on its
\* ordinary last line (the answer was the last it needed); the lists are
\* untouched, or lastResults is replaced whole by a finished search.
C27_OfflineEnds ==
  [][AnsweredOffline =>
       /\ EndedWithoutCall
       /\ \/ ErrorReported
          \/ out' # <<>> /\ Last(out').msg \in CompletionMsgs
          \/ walkResult' = "returned"]_vars

\* play n lost the core while the action menu was loading: the menu came,
\* the action call could not go out
C27_Witness ==
  /\ cmd.op = "play" /\ pc = "done" /\ ~browse
  /\ walkResult = "threw" /\ matched
  /\ Last(out) = Msg("Error: TypeError", 0)
  /\ Len(WalkCalls) = 2

====
